---- MODULE Spec2Model ----
(***************************************************************************)
(* Model of server/server.js: the question-rotation handler                *)
(* GET /api/questions/:topic, the attempt ledger POST/GET /api/attempts    *)
(* and the analytics handler GET /api/analytics; and of the client: the    *)
(* screen state of src/App.tsx and the token of ApiService.                *)
(*                                                                         *)
(* Every db.get / db.all / db.run / Statement#run of node-sqlite3 is an    *)
(* asynchronous storage call: the statement executes atomically in SQLite, *)
(* but statements of different requests (and the fire-and-forget           *)
(* insertUsage.run calls, which nobody awaits) execute in any order.  One  *)
(* action of the model is one storage statement together with the          *)
(* callback that consumes its result.                                      *)
(***************************************************************************)
EXTENDS Integers, Sequences, FiniteSets, TLC

\* ------------------------------------------------------------------ bounds
MaxInFlight == 2     \* draw requests that can be in flight at once
MaxIssued == 2       \* draw requests sent by the concurrent clients in one behaviour
MaxSeqIssued == 3    \* draw requests sent by the sequential client in one behaviour

\* --------------------------------------------------------- program constants
DefaultCount == 5    \* const { count = 5 } = req.query

\* ------------------------------------------------------------------ catalog
Users == {1, 2}

\* questions table: topic -> ids of its rows (immutable during a session)
Catalog == [pair |-> {1, 2}, triple |-> {3, 4, 5}, empty |-> {}]

Topics == DOMAIN Catalog

Questions == UNION {Catalog[t] : t \in Topics}

\* SELECT id FROM questions WHERE topic = ?
QuestionsOf(t) == Catalog[t]

\* the user whose draws on one topic are observed
ObsUser == 1

VARIABLES
  attempts,   \* interview_attempts: the rows in insertion order
  clock,      \* the database's current timestamp
  resp,       \* the last response to POST /api/attempts or GET /api/attempts
  ana,        \* the GET /api/analytics request: position in its callback chain, locals, response
  usage,      \* question_usage: usage[u][q] = number of rows (user_id u, question_id q)
  req,        \* draw requests: position in the callback chain and its locals
  issued,     \* number of draw requests received so far
  app,        \* App: currentScreen, selectedTopic, interviewResults (React state),
              \*   last: the handler called last (history)
  api,        \* ApiService: token (the private field), authToken (the entry of
              \*   localStorage), returned: what the last call returned,
              \*   expected: the token of the latest setToken, JsNull once
              \*   clearToken has followed it (history)
  obs         \* what ObsUser has seen on the topic obs.topic (history):
              \*   draws: requests sent, singles: all of them with count=1,
              \*   answered: responses received,
              \*   delivered: questions received since the last reset of the scope

drawVars == <<usage, req, issued, obs>>

attemptVars == <<attempts, clock, resp, ana>>

clientVars == <<app, api>>

vars == <<usage, req, issued, obs, attempts, clock, resp, ana, app, api>>

\* ----------------------------------------------------------------- helpers
Min(a, b) == IF a < b THEN a ELSE b

\* SELECT COUNT(*) as total FROM questions WHERE topic = ?
TotalQuestions(t) == Cardinality(QuestionsOf(t))

\* SELECT COUNT(DISTINCT q.id) ... JOIN question_usage ... WHERE q.topic = ? AND qu.user_id = ?
UsedCount(u, t) == Cardinality({q \in QuestionsOf(t) : usage[u][q] > 0})

\* the selection without its NOT IN (...) filter
AvailableIgnoringUsage(u, t) == QuestionsOf(t)

\* q.topic = ? AND q.id NOT IN (SELECT qu.question_id FROM question_usage qu WHERE qu.user_id = ?)
Available(u, t) == {q \in QuestionsOf(t) : usage[u][q] = 0}

\* LIMIT ? taking one row more than asked for
LimitPlusOne(n, avail) == IF n < 0 THEN avail ELSE Min(n + 1, avail)

\* LIMIT ?: a negative LIMIT is "no limit" in SQLite
Limit(n, avail) == IF n < 0 THEN avail ELSE Min(n, avail)

\* ORDER BY RANDOM() LIMIT k over the rows S: any k distinct rows in any order
Samples(S, k) ==
  {s \in [1..k -> S] : \A i, j \in 1..k : i # j => s[i] # s[j]}

Range(s) == {s[i] : i \in 1..Len(s)}

\* the exhaustion test written with > instead of >=
ExhaustedStrict(usedCount, total) == usedCount > total

\* The usedCount >= totalQuestions test that selects the reset branch
Exhausted(usedCount, total) == usedCount >= total

\* the reset without its question_id IN (...) filter
ResetUsageAllTopics(u, t) == [usage EXCEPT ![u] = [q \in Questions |-> 0]]

\* DELETE FROM question_usage WHERE user_id = ? AND question_id IN (SELECT id FROM questions WHERE topic = ?)
ResetUsage(u, t) ==
  [usage EXCEPT ![u] = [q \in Questions |-> IF q \in QuestionsOf(t) THEN 0 ELSE usage[u][q]]]

\* the insert binding the first user instead of req.user.id
InsertUsageFirstUser(u, q) == [usage EXCEPT ![1][q] = @ + 1]

\* INSERT INTO question_usage (user_id, question_id) VALUES (?, ?)
InsertUsage(u, q) == [usage EXCEPT ![u][q] = @ + 1]

\* const { count = 5 } = req.query; parseInt(count)
CountParam(query) == IF query.given THEN query.value ELSE DefaultCount

\* a query string with ?count=n
WithCount(n) == [given |-> TRUE, value |-> n]

\* a query string without count
NoCount == [given |-> FALSE, value |-> 0]

\* the locals of a request that has just arrived
NewReq(u, t, query) ==
  [pc |-> "count_used", user |-> u, topic |-> t, count |-> CountParam(query),
   usedCount |-> 0, total |-> 0, didReset |-> FALSE, result |-> <<>>,
   pending |-> <<>>, status |-> 0]

\* the requests in flight, in order of arrival
ReqIds == DOMAIN req

Responded(r) == req[r].status # 0

Observed(u, t) == u = ObsUser /\ t = obs.topic

\* s without its i-th element
Remove(s, i) == [j \in 1..(Len(s) - 1) |-> IF j < i THEN s[j] ELSE s[j + 1]]

\* ----------------------------------------------------------------- actions
\* app.get('/api/questions/:topic', authenticateToken, ...): a request arrives
Start(u, t, query) ==
  /\ Len(req) < MaxInFlight
  /\ issued' = issued + 1
  /\ req' = Append(req, NewReq(u, t, query))
  /\ obs' = IF Observed(u, t)
            THEN [obs EXCEPT !.draws = @ + 1,
                             !.singles = @ /\ CountParam(query) = 1]
            ELSE obs
  /\ UNCHANGED <<usage, attemptVars, clientVars>>

\* first db.get: used_count, and its callback
CountUsed(r) ==
  /\ req[r].pc = "count_used"
  /\ req' = [req EXCEPT ![r].usedCount = UsedCount(req[r].user, req[r].topic),
                        ![r].pc = "count_total"]
  /\ UNCHANGED <<usage, issued, obs, attemptVars, clientVars>>

\* second db.get: total, and its callback, which picks the branch
CountTotal(r) ==
  /\ req[r].pc = "count_total"
  /\ LET total == TotalQuestions(req[r].topic) IN
       req' = [req EXCEPT ![r].total = total,
                          ![r].pc = IF Exhausted(req[r].usedCount, total)
                                    THEN "reset" ELSE "select"]
  /\ UNCHANGED <<usage, issued, obs, attemptVars, clientVars>>

\* db.run(DELETE ...) of the reset branch, and its callback
Reset(r) ==
  /\ req[r].pc = "reset"
  /\ usage' = ResetUsage(req[r].user, req[r].topic)
  /\ req' = [req EXCEPT ![r].didReset = TRUE, ![r].pc = "select"]
  /\ obs' = IF Observed(req[r].user, req[r].topic)
            THEN [obs EXCEPT !.delivered = {}] ELSE obs
  /\ UNCHANGED <<issued, attemptVars, clientVars>>

\* getRandomQuestions: db.all(SELECT ... ORDER BY RANDOM() LIMIT ?) and its
\* callback, which queues one insertUsage.run per row and answers
\* res.json(questions) without waiting for them
Select(r) ==
  /\ req[r].pc = "select"
  /\ LET avail == Available(req[r].user, req[r].topic)
         k == Limit(req[r].count, Cardinality(avail))
     IN \E questions \in Samples(avail, k) :
          /\ req' = [req EXCEPT ![r].result = questions,
                                ![r].pending = questions,
                                ![r].status = 200,
                                ![r].pc = "insert"]
          /\ obs' = IF Observed(req[r].user, req[r].topic)
                    THEN [obs EXCEPT !.answered = @ + 1,
                                     !.delivered = @ \cup Range(questions)]
                    ELSE obs
  /\ UNCHANGED <<usage, issued, attemptVars, clientVars>>

\* the next queued insertUsage.run([req.user.id, question.id]) executes
Insert(r) ==
  /\ req[r].pc = "insert"
  /\ req[r].pending # <<>>
  /\ usage' = InsertUsage(req[r].user, Head(req[r].pending))
  /\ req' = [req EXCEPT ![r].pending = Tail(@)]
  /\ UNCHANGED <<issued, obs, attemptVars, clientVars>>

\* insertUsage.finalize() executes after the queued runs: the request is over
Finalize(r) ==
  /\ req[r].pc = "insert"
  /\ req[r].pending = <<>>
  /\ req' = Remove(req, r)
  /\ UNCHANGED <<usage, issued, obs, attemptVars, clientVars>>

\* the positions at which a storage call with an (err, ...) callback is pending
StorageCalls == {"count_used", "count_total", "reset", "select"}

\* the error branch without its return: 500 is answered and the handler goes
\* on with the next storage call
FailWithoutReturn(r) ==
  /\ req[r].pc \in StorageCalls
  /\ req' = [req EXCEPT ![r].status = 500,
                        ![r].pc = IF req[r].pc = "count_used" THEN "count_total"
                                  ELSE "select"]
  /\ obs' = IF Observed(req[r].user, req[r].topic)
            THEN [obs EXCEPT !.answered = @ + 1] ELSE obs
  /\ UNCHANGED <<usage, issued, attemptVars, clientVars>>

\* the pending db.get / db.run / db.all of r fails: the statement changes
\* nothing and its callback answers res.status(500) and returns
Fail(r) ==
  /\ req[r].pc \in StorageCalls
  /\ req' = [req EXCEPT ![r].status = 500, ![r].pc = "failed"]
  /\ obs' = IF Observed(req[r].user, req[r].topic)
            THEN [obs EXCEPT !.answered = @ + 1] ELSE obs
  /\ UNCHANGED <<usage, issued, attemptVars, clientVars>>

\* a request that has answered 500 has no callback left: it is over
Close(r) ==
  /\ req[r].pc = "failed"
  /\ req' = Remove(req, r)
  /\ UNCHANGED <<usage, issued, obs, attemptVars, clientVars>>


\* ------------------------------------------------- attempts and analytics
MaxAttempts == 2     \* rows of interview_attempts in one behaviour

RecentLimit == 20    \* LIMIT 20 of the recent attempts query

\* a numeric body field that is absent (undefined in JavaScript)
Undefined == -1

\* SQL NULL in a numeric column or aggregate
Null == -2

\* req.body.topic when the field is absent
NoTopic == "(undefined)"

\* bodies with every required field present and truthy; correctAnswers is
\* round(score / 10 * totalQuestions) as saveInterviewSession computes it, and
\* the optional fields are left out of the first
Complete ==
  {[topic |-> "pair", score |-> 7, totalQuestions |-> 3, correctAnswers |-> 2,
    durationMinutes |-> Undefined, confidenceScore |-> Undefined,
    facialExpressionScore |-> Undefined],
   [topic |-> "triple", score |-> 0, totalQuestions |-> 3, correctAnswers |-> 0,
    durationMinutes |-> 4, confidenceScore |-> 6, facialExpressionScore |-> 8]}

\* the JSON bodies tried by the clients: the complete ones, and each of them
\* with one required field absent, empty or zero
Bodies ==
  Complete
    \cup {[b EXCEPT !.topic = t] : b \in Complete, t \in {NoTopic, ""}}
    \cup {[b EXCEPT !.score = Undefined] : b \in Complete}
    \cup {[b EXCEPT !.totalQuestions = n] : b \in Complete, n \in {Undefined, 0}}
    \cup {[b EXCEPT !.correctAnswers = Undefined] : b \in Complete}

\* the complete bodies with correctAnswers: null
NullBodies == {[b EXCEPT !.correctAnswers = Null] : b \in Complete}

\* !topic || score === undefined || !totalQuestions || correctAnswers === undefined
MissingRequired(body) ==
  \/ body.topic = NoTopic \/ body.topic = ""
  \/ body.score = Undefined
  \/ body.totalQuestions = Undefined \/ body.totalQuestions = 0
  \/ body.correctAnswers = Undefined

\* a bound parameter that is undefined is stored as NULL
Bound(v) == IF v = Undefined THEN Null ELSE v

\* this.lastID: the rowid SQLite gives the inserted row
LastID(ledger) == Len(ledger) + 1

\* a row of interview_attempts
AttemptRow(id, u, body, date) ==
  [id |-> id, user |-> u, topic |-> body.topic, score |-> body.score,
   totalQuestions |-> body.totalQuestions,
   correctAnswers |-> body.correctAnswers,
   durationMinutes |-> Bound(body.durationMinutes),
   confidenceScore |-> Bound(body.confidenceScore),
   facialExpressionScore |-> Bound(body.facialExpressionScore),
   attemptDate |-> date]

\* the row stored by INSERT INTO interview_attempts (...) VALUES (?, ?, ?, ?, ?, ?, ?, ?)
NewAttempt(u, body, date) == AttemptRow(LastID(attempts), u, body, date)

\* the reads without their WHERE user_id = ? filter
RowsOfAnyUser(u, ledger) == ledger

\* FROM interview_attempts WHERE user_id = ?
RowsOf(u, ledger) == SelectSeq(ledger, LAMBDA row : row.user = u)

RECURSIVE SortedByDateDesc(_)
\* the arrangements of the rows S by attempt_date, newest first: a newest row,
\* then an arrangement of the others
SortedByDateDesc(S) ==
  IF S = {} THEN {<<>>}
  ELSE UNION {{<<row>> \o s : s \in SortedByDateDesc(S \ {row})} :
                row \in {x \in S : \A y \in S : x.attemptDate >= y.attemptDate}}

\* the query without its ORDER BY: the rows in insertion order
OrderByInsertion(rows) == {rows}

\* ORDER BY attempt_date DESC: rows of equal date come in any order
OrderByDateDesc(rows) == SortedByDateDesc(Range(rows))

\* the query without its LIMIT
LimitRowsNone(s, k) == s

\* LIMIT k with k >= 0
LimitRows(s, k) == SubSeq(s, 1, Min(k, Len(s)))

RECURSIVE SumOf(_)
SumOf(s) == IF s = <<>> THEN 0 ELSE Head(s) + SumOf(Tail(s))

RECURSIVE Gcd(_, _)
Gcd(a, b) == IF b = 0 THEN a ELSE Gcd(b, a % b)

\* the values of a column, NULLs left out as the SQL aggregates do
NonNull(s) == SelectSeq(s, LAMBDA v : v # Null)

\* an average that answers 0 for no rows
SqlAvgZero(s) == [null |-> FALSE, num |-> 0, den |-> 1]

\* AVG(column): NULL over no value, else the exact mean as a reduced fraction
SqlAvg(s) ==
  LET v == NonNull(s) IN
    IF v = <<>> THEN [null |-> TRUE, num |-> 0, den |-> 1]
    ELSE LET g == Gcd(SumOf(v), Len(v)) IN
           [null |-> FALSE, num |-> SumOf(v) \div g, den |-> Len(v) \div g]

\* MAX(column): NULL over no value
SqlMax(s) ==
  LET v == Range(NonNull(s)) IN
    IF v = {} THEN Null ELSE CHOOSE m \in v : \A x \in v : x <= m

\* MIN(column): NULL over no value
SqlMin(s) ==
  LET v == Range(NonNull(s)) IN
    IF v = {} THEN Null ELSE CHOOSE m \in v : \A x \in v : m <= x

Column(rows, f) == [i \in 1..Len(rows) |-> rows[i][f]]

\* SELECT * FROM interview_attempts WHERE user_id = ? ORDER BY attempt_date DESC
QueryAttempts(u, ledger) == OrderByDateDesc(RowsOf(u, ledger))

\* SELECT COUNT(*), AVG(score), MAX(score), MIN(score), AVG(duration_minutes) ... WHERE user_id = ?
QueryOverall(u, ledger) ==
  LET rows == RowsOf(u, ledger) IN
    [total_attempts |-> Len(rows),
     average_score |-> SqlAvg(Column(rows, "score")),
     best_score |-> SqlMax(Column(rows, "score")),
     worst_score |-> SqlMin(Column(rows, "score")),
     avg_duration |-> SqlAvg(Column(rows, "durationMinutes"))]

\* SELECT topic, COUNT(*), AVG(score), MAX(score), MIN(score) ... WHERE user_id = ? GROUP BY topic
QueryTopicStats(u, ledger) ==
  LET rows == RowsOf(u, ledger) IN
    {LET group == SelectSeq(rows, LAMBDA row : row.topic = t) IN
       [topic |-> t, attempts |-> Len(group),
        avg_score |-> SqlAvg(Column(group, "score")),
        best_score |-> SqlMax(Column(group, "score")),
        worst_score |-> SqlMin(Column(group, "score"))] :
     t \in {rows[i].topic : i \in 1..Len(rows)}}

\* the columns of the recent attempts query
RecentColumns(row) ==
  [score |-> row.score, attempt_date |-> row.attemptDate, topic |-> row.topic,
   confidence_score |-> row.confidenceScore,
   facial_expression_score |-> row.facialExpressionScore]

\* SELECT score, attempt_date, topic, confidence_score, facial_expression_score
\* ... WHERE user_id = ? ORDER BY attempt_date DESC LIMIT 20
QueryRecent(u, ledger) ==
  {LET top == LimitRows(s, RecentLimit) IN [i \in 1..Len(top) |-> RecentColumns(top[i])] :
     s \in OrderByDateDesc(RowsOf(u, ledger))}

\* no POST /api/attempts or GET /api/attempts answered yet
NoResponse == [kind |-> "none", status |-> 0]

\* no GET /api/analytics received yet
NoAnalytics == [pc |-> "idle"]

\* app.post('/api/attempts', ...) with a body that fails the required-field
\* check: 400 before any storage call
RejectAttempt(u, body) ==
  /\ MissingRequired(body)
  /\ resp' = [kind |-> "post", status |-> 400]
  /\ UNCHANGED <<attempts, clock, ana, drawVars, clientVars>>

\* INSERT OR REPLACE in place of the INSERT: the newest row is overwritten
SubmitAttemptReplacing(u, body) ==
  /\ ~MissingRequired(body)
  /\ Len(attempts) < MaxAttempts
  /\ \E date \in {clock, clock + 1} :
       /\ clock' = date
       /\ attempts' = IF attempts = <<>>
                      THEN <<NewAttempt(u, body, date)>>
                      ELSE [attempts EXCEPT ![Len(attempts)] = NewAttempt(u, body, date)]
  /\ resp' = [kind |-> "post", status |-> 200, id |-> LastID(attempts)]
  /\ UNCHANGED <<ana, drawVars, clientVars>>

\* app.post('/api/attempts', ...) with a body that passes the check: the
\* INSERT and its callback; attempt_date is the database's timestamp, which
\* may or may not have advanced since the previous row
SubmitAttempt(u, body) ==
  /\ ~MissingRequired(body)
  /\ Len(attempts) < MaxAttempts
  /\ \E date \in {clock, clock + 1} :
       /\ clock' = date
       /\ attempts' = Append(attempts, NewAttempt(u, body, date))
  /\ resp' = [kind |-> "post", status |-> 200, id |-> LastID(attempts)]
  /\ UNCHANGED <<ana, drawVars, clientVars>>

\* app.post('/api/attempts', ...) with a body that passes the check, the
\* INSERT failing (a storage error, or a constraint of the table): no row,
\* and the callback answers res.status(500)
FailAttempt(u, body) ==
  /\ ~MissingRequired(body)
  /\ resp' = [kind |-> "post", status |-> 500]
  /\ UNCHANGED <<attempts, clock, ana, drawVars, clientVars>>

\* app.get('/api/attempts', ...): the SELECT and its callback
ListAttempts(u) ==
  /\ \E rows \in QueryAttempts(u, attempts) :
       resp' = [kind |-> "listing", status |-> 200, user |-> u, rows |-> rows]
  /\ UNCHANGED <<attempts, clock, ana, drawVars, clientVars>>

\* app.get('/api/analytics', ...): a request arrives
StartAnalytics(u) ==
  /\ ana.pc \in {"idle", "done"}
  /\ ana' = [pc |-> "overall", user |-> u]
  /\ UNCHANGED <<attempts, clock, resp, drawVars, clientVars>>

\* first db.get: overall statistics, and its callback
AnalyticsOverall ==
  /\ ana.pc = "overall"
  /\ ana' = [pc |-> "topics", user |-> ana.user,
             overall |-> QueryOverall(ana.user, attempts)]
  /\ UNCHANGED <<attempts, clock, resp, drawVars, clientVars>>

\* db.all: topic-wise statistics, and its callback
AnalyticsTopics ==
  /\ ana.pc = "topics"
  /\ ana' = [pc |-> "recent", user |-> ana.user, overall |-> ana.overall,
             topicStats |-> QueryTopicStats(ana.user, attempts)]
  /\ UNCHANGED <<attempts, clock, resp, drawVars, clientVars>>

\* db.all: recent attempts, and its callback, which answers res.json
AnalyticsRecent ==
  /\ ana.pc = "recent"
  /\ \E recent \in QueryRecent(ana.user, attempts) :
       ana' = [pc |-> "done", user |-> ana.user, status |-> 200,
               overall |-> ana.overall, topicStats |-> ana.topicStats,
               recentAttempts |-> recent]
  /\ UNCHANGED <<attempts, clock, resp, drawVars, clientVars>>

\* ------------------------------------------------------------------ client
\* null, of useState<Topic | null>(null) and of localStorage.getItem
JsNull == "null"

\* a call that returns nothing, or no call yet
Void == "(void)"

\* the Topic objects passed by TopicSelection, named by their id
AppTopics == {"dsa", "os"}

\* the non-null results passed by InterviewLayout
Results == {"r1", "r2"}

\* the strings passed to setToken, the empty string among them
Tokens == {"", "a", "b"}

\* !x for a string or null
Falsy(x) == x \in {JsNull, ""}

\* the three useState initial values
InitialApp ==
  [currentScreen |-> "topics", selectedTopic |-> JsNull,
   interviewResults |-> JsNull, last |-> "(none)"]

handleTopicSelect(topic) ==
  /\ app' = [app EXCEPT !.selectedTopic = topic, !.currentScreen = "interview",
                        !.last = "handleTopicSelect"]
  /\ UNCHANGED <<api, drawVars, attemptVars>>

handleInterviewComplete(results) ==
  /\ app' = [app EXCEPT !.interviewResults = results, !.currentScreen = "results",
                        !.last = "handleInterviewComplete"]
  /\ UNCHANGED <<api, drawVars, attemptVars>>

\* handleStartNew without its if (selectedTopic)
handleStartNewUnguarded ==
  /\ app' = [app EXCEPT !.interviewResults = JsNull, !.currentScreen = "interview",
                        !.last = "handleStartNew"]
  /\ UNCHANGED <<api, drawVars, attemptVars>>

\* a Topic object is truthy, so if (selectedTopic) tests for null
handleStartNew ==
  /\ app' = IF app.selectedTopic # JsNull
            THEN [app EXCEPT !.interviewResults = JsNull,
                             !.currentScreen = "interview",
                             !.last = "handleStartNew"]
            ELSE [app EXCEPT !.last = "handleStartNew"]
  /\ UNCHANGED <<api, drawVars, attemptVars>>

handleBackToTopics ==
  /\ app' = [app EXCEPT !.selectedTopic = JsNull, !.interviewResults = JsNull,
                        !.currentScreen = "topics", !.last = "handleBackToTopics"]
  /\ UNCHANGED <<api, drawVars, attemptVars>>

handleBackFromInterview ==
  /\ app' = [app EXCEPT !.selectedTopic = JsNull, !.currentScreen = "topics",
                        !.last = "handleBackFromInterview"]
  /\ UNCHANGED <<api, drawVars, attemptVars>>

\* new ApiService() in a browser whose localStorage holds stored under
\* 'authToken' (JsNull: no entry)
FreshApi(stored) ==
  [token |-> JsNull, authToken |-> stored, returned |-> Void, expected |-> Void]

setToken(token) ==
  /\ api' = [api EXCEPT !.token = token, !.authToken = token,
                        !.returned = Void, !.expected = token]
  /\ UNCHANGED <<app, drawVars, attemptVars>>

getToken ==
  /\ LET t == IF Falsy(api.token) THEN api.authToken ELSE api.token
     IN api' = [api EXCEPT !.token = t, !.returned = t]
  /\ UNCHANGED <<app, drawVars, attemptVars>>

\* clearToken without its localStorage.removeItem('authToken')
clearTokenMemoryOnly ==
  /\ api' = [api EXCEPT !.token = JsNull, !.returned = Void, !.expected = JsNull]
  /\ UNCHANGED <<app, drawVars, attemptVars>>

clearToken ==
  /\ api' = [api EXCEPT !.token = JsNull, !.authToken = JsNull,
                        !.returned = Void, !.expected = JsNull]
  /\ UNCHANGED <<app, drawVars, attemptVars>>

\* the page just loaded, nothing stored by an earlier visit
InitClient ==
  /\ app = InitialApp
  /\ api = FreshApi(JsNull)

\* no interview_attempts row, no request yet
InitAttempts ==
  /\ attempts = <<>>
  /\ clock = 0
  /\ resp = NoResponse
  /\ ana = NoAnalytics

EmptyLedger == [u \in Users |-> [q \in Questions |-> 0]]

\* topics and query strings tried by the concurrent clients
ConcTopics == {"pair", "empty"}

ConcQueries == {NoCount} \cup {WithCount(n) : n \in {0, 1}}

\* query strings tried by the sequential client
SeqQueries == {WithCount(n) : n \in {0, 1, 10}}

\* a fresh database (no question_usage rows), no request yet; the observed
\* topic is one of ts
InitDraws(ts) ==
  /\ InitAttempts
  /\ InitClient
  /\ usage = EmptyLedger
  /\ req = <<>>
  /\ issued = 0
  /\ \E t \in ts :
       obs = [topic |-> t, draws |-> 0, singles |-> TRUE, answered |-> 0, delivered |-> {}]

\* the ledger after user u has drawn every question of topic t once
LedgerAfterDrawing(u, t) ==
  [EmptyLedger EXCEPT ![u] = [q \in Questions |-> IF q \in QuestionsOf(t) THEN 1 ELSE 0]]

\* a database in which ObsUser has drawn the whole topic "pair" in one
\* earlier request without count, which is over
InitDrawn ==
  /\ InitAttempts
  /\ InitClient
  /\ usage = LedgerAfterDrawing(ObsUser, "pair")
  /\ req = <<>>
  /\ issued = 0
  /\ obs = [topic |-> "pair", draws |-> 1, singles |-> FALSE, answered |-> 1,
            delivered |-> QuestionsOf("pair")]

Init == InitDraws(ConcTopics) \/ InitDrawn

InitSeq == InitDraws(Topics)

\* concurrent clients: a request may arrive at any time
StartAny ==
  \E u \in Users, t \in ConcTopics, query \in ConcQueries :
    /\ issued < MaxIssued
    /\ Start(u, t, query)

\* a sequential client drawing from one topic: the next request is sent on
\* receipt of the previous response (res.json)
StartSeq ==
  \E query \in SeqQueries :
    /\ issued < MaxSeqIssued
    /\ \A k \in ReqIds : Responded(k)
    /\ Start(ObsUser, obs.topic, query)

Step ==
  \E r \in ReqIds : CountUsed(r) \/ CountTotal(r) \/ Reset(r) \/ Select(r) \/ Insert(r) \/ Finalize(r)

Next == StartAny \/ Step

NextSeq == StartSeq \/ Step

Spec == Init /\ [][Next]_vars

SpecSeq == InitSeq /\ [][NextSeq]_vars

\* a sequential client on a database whose statements may fail, sending any
\* count, negative ones included
MaxFaultyIssued == 2   \* draw requests sent by that client in one behaviour

FaultyTopics == {"pair", "empty"}

FaultyQueries == {WithCount(n) : n \in {-1, 1, 10}}

InitFaulty == InitDraws(FaultyTopics) \/ InitDrawn

StartFaulty ==
  \E query \in FaultyQueries :
    /\ issued < MaxFaultyIssued
    /\ \A k \in ReqIds : Responded(k)
    /\ Start(ObsUser, obs.topic, query)

Failure == \E r \in ReqIds : Fail(r) \/ Close(r)

NextFaulty == StartFaulty \/ Step \/ Failure

SpecFaulty == InitFaulty /\ [][NextFaulty]_vars

\* the attempt ledger and its readers, on a database without draws
InitLedger ==
  /\ InitAttempts
  /\ InitClient
  /\ usage = EmptyLedger
  /\ req = <<>>
  /\ issued = 0
  /\ obs = [topic |-> "empty", draws |-> 0, singles |-> TRUE, answered |-> 0, delivered |-> {}]

Post == \E u \in Users, body \in Bodies : RejectAttempt(u, body) \/ SubmitAttempt(u, body)

Read ==
  \/ \E u \in Users : ListAttempts(u) \/ StartAnalytics(u)
  \/ AnalyticsOverall \/ AnalyticsTopics \/ AnalyticsRecent

NextLedger == Post \/ Read

SpecLedger == InitLedger /\ [][NextLedger]_vars

\* a database with a long history of attempts, read by both users
MaxHistory == 21     \* rows of interview_attempts in that history

\* the body of the i-th submission of the history
HistoryBody(i) ==
  CHOOSE b \in Complete : b.topic = (IF i % 2 = 1 THEN "pair" ELSE "triple")

\* the ledger after n accepted submissions, all by user 1 except the one
\* numbered otherAt (none when 0), the database's timestamp advancing with
\* each except the one numbered tieAt + 1
History(n, otherAt, tieAt) ==
  [i \in 1..n |->
     AttemptRow(i, IF i = otherAt THEN 2 ELSE 1, HistoryBody(i),
                IF i > tieAt THEN i - 1 ELSE i)]

InitHistory ==
  /\ \E n \in (RecentLimit - 1)..MaxHistory, otherAt \in 0..MaxHistory,
        tieAt \in 1..MaxHistory :
       /\ otherAt <= n /\ tieAt <= n
       /\ attempts = History(n, otherAt, tieAt)
       /\ clock = attempts[n].attemptDate
       /\ resp = [kind |-> "post", status |-> 200, id |-> n]
  /\ ana = NoAnalytics
  /\ usage = EmptyLedger
  /\ req = <<>>
  /\ issued = 0
  /\ obs = [topic |-> "empty", draws |-> 0, singles |-> TRUE, answered |-> 0, delivered |-> {}]
  /\ InitClient

NextHistory == Read

SpecHistory == InitHistory /\ [][NextHistory]_vars

\* the POST /api/attempts handler alone, null fields and failing inserts
\* included
NextValidation ==
  \E u \in Users, body \in Bodies \cup NullBodies :
    RejectAttempt(u, body) \/ SubmitAttempt(u, body) \/ FailAttempt(u, body)

SpecValidation == InitLedger /\ [][NextValidation]_vars

\* the client alone: the page just loaded, localStorage as an earlier visit
\* of ApiService left it, the server's tables untouched
InitClientSession ==
  /\ app = InitialApp
  /\ \E stored \in Tokens \cup {JsNull} : api = FreshApi(stored)
  /\ InitAttempts
  /\ usage = EmptyLedger
  /\ req = <<>>
  /\ issued = 0
  /\ obs = [topic |-> "empty", draws |-> 0, singles |-> TRUE, answered |-> 0, delivered |-> {}]

NextClient ==
  \/ \E topic \in AppTopics : handleTopicSelect(topic)
  \/ \E results \in Results : handleInterviewComplete(results)
  \/ handleStartNew
  \/ handleBackToTopics
  \/ handleBackFromInterview
  \/ \E token \in Tokens : setToken(token)
  \/ getToken
  \/ clearToken

SpecClient == InitClientSession /\ [][NextClient]_vars

\* ------------------------------------------------------------ draw claims
Distinct(s) == \A i, j \in 1..Len(s) : i # j => s[i] # s[j]

\* r has just answered: the step is the callback of the SELECT
Answers(r) == req[r].pc = "select" /\ Len(req') = Len(req) /\ req'[r].pc = "insert"

\* every queued insert of r has executed
Marked(r) == req[r].pc = "insert" /\ req[r].pending = <<>>

\* C1: in a sequence of draws by one user on one topic, each sent after the
\* previous response, no question is returned a second time until every
\* question of the topic has been returned since the last reset.
C1_NoRepeatWithinCycle ==
  [][\A r \in ReqIds :
       (Answers(r) /\ Observed(req[r].user, req[r].topic)) =>
         \/ Range(req'[r].result) \cap obs.delivered = {}
         \/ obs.delivered = QuestionsOf(obs.topic)]_vars

\* C2: two concurrent count=1 draws by one user on a topic of 2 questions,
\* from an empty ledger, never return the same question, and once both are
\* marked the ledger holds 2 distinct questions of the topic.
C2_ConcurrentSinglesDistinct ==
  (/\ TotalQuestions(obs.topic) = 2
   /\ obs.singles /\ obs.draws = 2 /\ obs.answered = 2) =>
     /\ Cardinality(obs.delivered) = 2
     /\ (\A r \in ReqIds :
           Observed(req[r].user, req[r].topic) => Marked(r))
          => UsedCount(ObsUser, obs.topic) = 2

SameScope(r1, r2) == req[r1].user = req[r2].user /\ req[r1].topic = req[r2].topic

\* the rows r has inserted so far
Inserted(r) == Range(req[r].result) \ Range(req[r].pending)

\* C3: of two requests in flight for the same (user, topic) on a topic that
\* has questions, at most one executes the reset, and a reset never removes
\* rows the other request inserted after its own reset.
C3_SingleReset ==
  /\ [](\A r1, r2 \in ReqIds :
          (r1 # r2 /\ SameScope(r1, r2) /\ req[r1].total >= 1) => ~(req[r1].didReset /\ req[r2].didReset))
  /\ [][\A r1, r2 \in ReqIds :
          (r1 # r2 /\ SameScope(r1, r2) /\ req[r2].didReset /\ Reset(r1)) =>
            \A q \in Inserted(r2) : usage'[req[r2].user][q] = usage[req[r2].user][q]]_vars

\* C4: from an empty ledger, N sequential count=1 draws on a topic of N >= 1
\* questions return one question each, pairwise distinct, together the
\* whole catalog of the topic.
C4_SinglesArePermutation ==
  (/\ TotalQuestions(obs.topic) >= 1
   /\ obs.singles
   /\ obs.answered <= TotalQuestions(obs.topic)) =>
     Cardinality(obs.delivered) = obs.answered

\* the (N+1)-th sequential count=1 draw, which found all N questions used
C5Case(r) ==
  /\ Observed(req[r].user, req[r].topic)
  /\ TotalQuestions(obs.topic) >= 1
  /\ obs.singles /\ obs.draws = TotalQuestions(obs.topic) + 1
  /\ req[r].pc \in {"reset", "select", "insert"}
  /\ req[r].usedCount = TotalQuestions(obs.topic)

C6_SizeIsMinOfCountAndTotal ==
  \A r \in ReqIds : (req[r].pc = "insert" /\ req[r].count >= 0) =>
    /\ req[r].status = 200
    /\ Len(req[r].result) = Min(req[r].count, TotalQuestions(req[r].topic))
    /\ Distinct(req[r].result)
    /\ Range(req[r].result) \subseteq QuestionsOf(req[r].topic)

\* C6 amended: a draw with count >= 0 returns exactly min(count, N - u)
\* pairwise distinct questions of the topic, u being the number of distinct
\* questions of the topic in the user's ledger when the selection runs, and
\* never an error; count=10 on a topic of 3 questions whose ledger is empty
\* at the selection returns exactly 3.
C6_SizeIsMinOfCountAndUnused ==
  [][\A r \in ReqIds : (Answers(r) /\ req[r].count >= 0) =>
       /\ req'[r].status = 200
       /\ Len(req'[r].result) =
            Min(req[r].count,
                TotalQuestions(req[r].topic) - UsedCount(req[r].user, req[r].topic))
       /\ Distinct(req'[r].result)
       /\ Range(req'[r].result) \subseteq QuestionsOf(req[r].topic)]_vars

C6_Witness ==
  \E r \in ReqIds :
    /\ req[r].pc = "insert" /\ req[r].count = 10
    /\ TotalQuestions(req[r].topic) = 3
    /\ Len(req[r].result) = 3 /\ req[r].status = 200

\* C7: a draw on a topic without questions answers an empty array with a
\* success status whatever the count, and none of its storage steps changes
\* the usage ledger.
C7_EmptyTopic ==
  /\ [](\A r \in ReqIds :
          (TotalQuestions(req[r].topic) = 0 /\ req[r].pc = "insert") =>
            req[r].status = 200 /\ req[r].result = <<>> /\ req[r].pending = <<>>)
  /\ [][\A r \in ReqIds :
          (/\ TotalQuestions(req[r].topic) = 0
           /\ \/ CountUsed(r) \/ CountTotal(r) \/ Reset(r)
              \/ Select(r) \/ Insert(r) \/ Finalize(r)) =>
            usage' = usage]_vars

C7_Witness ==
  \E r \in ReqIds :
    /\ TotalQuestions(req[r].topic) = 0 /\ req[r].pc = "insert"
    /\ req[r].didReset /\ req[r].count = DefaultCount
    /\ req[r].result = <<>> /\ req[r].status = 200
    /\ UsedCount(req[r].user, "pair") = 2

\* the handler of request r takes a step
StepOf(r) ==
  \/ CountUsed(r) \/ CountTotal(r) \/ Reset(r)
  \/ Select(r) \/ Insert(r) \/ Finalize(r)

\* C13: a draw request that answers with a server error because a storage
\* step failed has left the usage ledger as it was: it has not deleted the
\* rows it counted (with a sequential client the rows a request counts are
\* still there when its DELETE runs, so a reset after usedCount > 0 deletes).
C13_FailureLeavesLedger ==
  \A r \in ReqIds :
    req[r].status = 500 => ~(req[r].didReset /\ req[r].usedCount > 0)

\* C14: in every reachable state the usage ledger holds at most one row for
\* a (user, question) pair.
C14_UniquePairs == \A u \in Users, q \in Questions : usage[u][q] <= 1

\* C15: a usage row that a step of a draw for (user U, topic T) deletes or
\* inserts is a row of U for a question of T: never a row of another user,
\* never a row of U for a question of another topic.
C15_DrawFrame ==
  [][\A u \in Users, q \in Questions :
       usage'[u][q] # usage[u][q] =>
         \A r \in ReqIds :
           StepOf(r) => (u = req[r].user /\ q \in QuestionsOf(req[r].topic))]_vars

\* a draw on "pair" has reset and marked a question while the other user
\* holds rows of "pair"
C15_Witness ==
  \E r \in ReqIds :
    /\ req[r].topic = "pair" /\ req[r].didReset
    /\ req[r].pc = "insert" /\ req[r].result # <<>> /\ req[r].pending = <<>>
    /\ \E u \in Users \ {req[r].user} : UsedCount(u, "pair") > 0

\* C16: a draw with count >= 0 returns exactly
\* min(count, total - used) questions, used being the number of the topic's
\* questions in the user's ledger when the selection runs (after the
\* possible reset); each returned question is of the topic and was not in
\* the user's ledger at that moment.
C16_SampleOfUnused ==
  [][\A r \in ReqIds :
       (Answers(r) /\ req[r].count >= 0) =>
         LET u == req[r].user
             t == req[r].topic
             used == Cardinality({q \in QuestionsOf(t) : usage[u][q] > 0})
         IN /\ Len(req'[r].result) = Min(req[r].count, TotalQuestions(t) - used)
            /\ \A q \in Range(req'[r].result) :
                 q \in QuestionsOf(t) /\ usage[u][q] = 0]_vars

\* a draw without count on "pair" was answered with the one question that
\* was left
C16_Witness ==
  \E r \in ReqIds :
    /\ req[r].topic = "pair" /\ req[r].count = DefaultCount
    /\ req[r].pc = "insert" /\ ~req[r].didReset
    /\ Len(req[r].result) = 1

\* C17: when the response of a draw is sent, every question in it is in the
\* usage ledger of the user.
C17_MarkedWhenAnswered ==
  [][\A r \in ReqIds :
       Answers(r) =>
         \A q \in Range(req'[r].result) : usage'[req[r].user][q] > 0]_vars

\* C20: a draw with a negative count returns no question and inserts no
\* usage row.
C20_NegativeCountDrawsNothing ==
  [][\A r \in ReqIds :
       /\ (Answers(r) /\ req[r].count < 0) => req'[r].result = <<>>
       /\ Insert(r) => req[r].count >= 0]_vars
\* C23: every draw request is answered exactly once, whichever storage call
\* fails or none: the responses received are one per request that is over or
\* has answered, a request that has answered is not answered again, and a
\* request that has answered 500 runs no further storage call.
C23_OneResponse ==
  /\ [](obs.answered + Cardinality({r \in ReqIds : req[r].status = 0}) = obs.draws)
  /\ [][\A r \in ReqIds :
          /\ (Responded(r) /\ (StepOf(r) \/ Fail(r) \/ Close(r))) =>
               obs'.answered = obs.answered
          /\ req[r].status = 500 =>
               ~(\/ CountUsed(r) \/ CountTotal(r) \/ Reset(r)
                 \/ Select(r) \/ Insert(r) \/ Fail(r))]_vars

\* the second of two draws has reset and then answered 500, its SELECT
\* having failed
C23_Witness ==
  /\ obs.draws = 2 /\ obs.answered = 2
  /\ \E r \in ReqIds :
       req[r].pc = "failed" /\ req[r].status = 500 /\ req[r].didReset

\* ------------------------------------------------------- attempts: claims
\* topic, score and totalQuestions are in the body (an empty topic string
\* is taken as no topic)
HasRequired(body) ==
  /\ body.topic \notin {NoTopic, ""}
  /\ body.score # Undefined
  /\ body.totalQuestions # Undefined

\* the POST /api/attempts handler answers the body of user u in this step
Posts(u, body) == RejectAttempt(u, body) \/ SubmitAttempt(u, body)

\* C8: a POST /attempts without correctAnswers is answered 400 and leaves the
\* attempt ledger as it was; a POST /attempts with topic, score and
\* totalQuestions present and correctAnswers = 0 is answered with success,
\* appends exactly one row, and that row's correctAnswers is 0.
C8_CorrectAnswersZeroAccepted ==
  [][\A u \in Users, body \in Bodies :
       Posts(u, body) =>
         /\ body.correctAnswers = Undefined =>
              resp'.status = 400 /\ attempts' = attempts
         /\ (HasRequired(body) /\ body.correctAnswers = 0) =>
              /\ resp'.status = 200
              /\ Len(attempts') = Len(attempts) + 1
              /\ SubSeq(attempts', 1, Len(attempts)) = attempts
              /\ attempts'[Len(attempts')].correctAnswers = 0]_vars

\* the ledger had the users other than u submitted nothing
Alone(u, ledger) == SelectSeq(ledger, LAMBDA row : row.user \notin (Users \ {u}))

ZeroAttempts(u) == \A i \in DOMAIN attempts : attempts[i].user # u

\* C10: GET /analytics of a user without attempts answers with success,
\* total_attempts = 0, the four aggregates null (not 0), no topicStats and
\* no recentAttempts.
C10_NoAttemptsAnalytics ==
  (ana.pc = "done" /\ ZeroAttempts(ana.user)) =>
    /\ ana.status = 200
    /\ ana.overall.total_attempts = 0
    /\ ana.overall.average_score.null
    /\ ana.overall.best_score = Null
    /\ ana.overall.worst_score = Null
    /\ ana.overall.avg_duration.null
    /\ ana.topicStats = {}
    /\ ana.recentAttempts = <<>>

\* the analytics of a user without attempts were answered while the other
\* user has attempts
C10_Witness ==
  /\ ana.pc = "done" /\ ZeroAttempts(ana.user)
  /\ attempts # <<>>

RECURSIVE TopicAttempts(_)
\* the sum of the attempts counts of a topicStats result
TopicAttempts(stats) ==
  IF stats = {} THEN 0
  ELSE LET x == CHOOSE y \in stats : TRUE IN x.attempts + TopicAttempts(stats \ {x})

\* C11: the three parts of a GET /analytics response reflect the attempt
\* ledger at one point in time (the ledger only grows, so a point in time is
\* a prefix of it): total_attempts is the sum of the topicStats counts, and
\* recentAttempts holds no more attempts than overall counts.
C11_AnalyticsSnapshot ==
  ana.pc = "done" =>
    /\ ana.overall.total_attempts = TopicAttempts(ana.topicStats)
    /\ Len(ana.recentAttempts) <= ana.overall.total_attempts
    /\ \E n \in 0..Len(attempts) :
         LET ledger == SubSeq(attempts, 1, n) IN
           /\ ana.overall = QueryOverall(ana.user, ledger)
           /\ ana.topicStats = QueryTopicStats(ana.user, ledger)
           /\ ana.recentAttempts \in QueryRecent(ana.user, ledger)

\* C12: the attempt ledger only grows at its end: no step removes or changes
\* a stored row, an accepted POST /attempts adds exactly one row, and the id
\* it returns is the id of that row and of no other stored row.
C12_AppendOnly ==
  /\ [](\A i, j \in DOMAIN attempts : i # j => attempts[i].id # attempts[j].id)
  /\ [][/\ Len(attempts') >= Len(attempts)
        /\ SubSeq(attempts', 1, Len(attempts)) = attempts
        /\ \A u \in Users, body \in Bodies :
             SubmitAttempt(u, body) =>
               /\ Len(attempts') = Len(attempts) + 1
               /\ attempts'[Len(attempts')].id = resp'.id
               /\ \A i \in DOMAIN attempts : attempts[i].id # resp'.id]_vars

\* two users have submitted one attempt each, and the second was answered
\* with its id
C12_Witness ==
  /\ Len(attempts) = 2 /\ attempts[1].user # attempts[2].user
  /\ resp.kind = "post" /\ resp.status = 200 /\ resp.id = attempts[2].id

\* C18: a POST /attempts whose correctAnswers is null, the other required
\* fields present, is answered 400 and leaves the attempt ledger as it was.
C18_NullCorrectAnswersRejected ==
  [][\A u \in Users, body \in NullBodies :
       Posts(u, body) => resp'.status = 400 /\ attempts' = attempts]_vars

\* topic, score, totalQuestions and correctAnswers are all in the body
AllPresent(body) ==
  HasRequired(body) /\ body.correctAnswers \notin {Undefined, Null}

\* C19: a POST /attempts in which topic, score, totalQuestions and
\* correctAnswers are all present is accepted and appended, whatever their
\* numeric values (score = 0 and totalQuestions = 0 included).
C19_PresenceOnly ==
  [][\A u \in Users, body \in Bodies :
       (Posts(u, body) /\ AllPresent(body)) =>
         /\ resp'.status = 200
         /\ Len(attempts') = Len(attempts) + 1
         /\ attempts'[Len(attempts')].score = body.score
         /\ attempts'[Len(attempts')].totalQuestions = body.totalQuestions]_vars

\* the positions in the ledger of the attempts of user u
OwnRows(u) == {k \in DOMAIN attempts : attempts[k].user = u}

\* how many entries of a recentAttempts result are equal to the entry p
Copies(recent, p) == Cardinality({i \in DOMAIN recent : recent[i] = p})

\* how many attempts of user u show as the entry p
Stored(u, p) == Cardinality({k \in OwnRows(u) : RecentColumns(attempts[k]) = p})

\* C21: recentAttempts has min(20, number of the user's attempts) entries,
\* newest first; each entry is an attempt of the user, none listed twice;
\* and every attempt of the user newer than the oldest entry is listed, so
\* that an attempt left out is no later than any entry.
C21_RecentAttempts ==
  [][AnalyticsRecent =>
       LET u == ana.user
           recent == ana'.recentAttempts
           m == Len(recent)
       IN /\ m = Min(20, Cardinality(OwnRows(u)))
          /\ \A i, j \in 1..m : i < j => recent[i].attempt_date >= recent[j].attempt_date
          /\ \A i \in 1..m : Copies(recent, recent[i]) <= Stored(u, recent[i])
          /\ \A k \in OwnRows(u) :
               attempts[k].attemptDate > recent[m].attempt_date =>
                 Copies(recent, RecentColumns(attempts[k]))
                   = Stored(u, RecentColumns(attempts[k]))]_vars

\* the analytics of a user with 21 attempts were answered with 20 entries
C21_Witness ==
  /\ ana.pc = "done"
  /\ Cardinality(OwnRows(ana.user)) = 21
  /\ Len(ana.recentAttempts) = 20

\* C22: the listing of GET /attempts holds every attempt of the user exactly
\* once and nothing else, newest first.
C22_ListingComplete ==
  [][\A u \in Users :
       ListAttempts(u) =>
         LET rows == resp'.rows IN
           /\ Len(rows) = Cardinality(OwnRows(u))
           /\ \A k \in OwnRows(u) :
                Cardinality({i \in DOMAIN rows : rows[i] = attempts[k]}) = 1
           /\ \A i, j \in DOMAIN rows :
                i < j => rows[i].attemptDate >= rows[j].attemptDate]_vars

\* a user with an older and a newer attempt has read the listing
C22_Witness ==
  /\ resp.kind = "listing" /\ Len(resp.rows) = 2
  /\ resp.rows[1].attemptDate > resp.rows[2].attemptDate
  /\ Cardinality(OwnRows(resp.user)) = 2

\* --------------------------------------------------------- client: claims
\* C24: whatever handlers of App have been called, the interview screen has
\* a selected topic and the results screen has results; and handleStartNew
\* called without a selected topic changes neither the screen, nor the
\* topic, nor the results.
C24_ScreenHasItsData ==
  /\ [](/\ app.currentScreen = "interview" => app.selectedTopic # JsNull
        /\ app.currentScreen = "results" => app.interviewResults # JsNull)
  /\ [][(handleStartNew /\ app.selectedTopic = JsNull) =>
          /\ app'.currentScreen = app.currentScreen
          /\ app'.selectedTopic = app.selectedTopic
          /\ app'.interviewResults = app.interviewResults]_vars

\* handleStartNew was called on the results screen after the topic had been
\* dropped, and the results are still shown
C24_Witness ==
  /\ app.last = "handleStartNew"
  /\ app.selectedTopic = JsNull
  /\ app.currentScreen = "results"
  /\ app.interviewResults # JsNull

\* C25: a non-null token in memory is the 'authToken' entry of localStorage;
\* getToken returns the token of the latest setToken when no clearToken has
\* followed it, and null when one has.
C25_TokenMirrorsStorage ==
  /\ api.token # JsNull => api.token = api.authToken
  /\ (api.returned # Void /\ api.expected # Void) => api.returned = api.expected

\* getToken was called after a clearToken that no setToken followed, and
\* returned null
C25_Witness ==
  /\ api.expected = JsNull
  /\ api.returned = JsNull
  /\ api.token = JsNull /\ api.authToken = JsNull
====
